---- MODULE Spec2Model ----
(***************************************************************************)
(* The lock / dl-apps pipeline of mia/commands/definition.py:              *)
(* create_apps_lock_file, get_apps_lock_info and download_apps, run as a   *)
(* sequence of command invocations over the files they share (the cached   *)
(* repository indexes and apps_lock.yaml).                                 *)
(*                                                                         *)
(* Version codes are represented by their decimal text, the form in which  *)
(* the code splices them into its XPath queries and reads them from the    *)
(* index; "latest" is the sentinel of the settings file.                   *)
(***************************************************************************)
EXTENDS Integers, Sequences, FiniteSets, TLC

\* Longest list of declarations of the first repository.
MaxDecls == 3
\* Longest list of declarations of the second repository.
MaxExtraDecls == 1
\* Number of command invocations in one behaviour.
MaxRuns == 2

\* The position the latest-path query asks for: package[0].
LatestPackagePosition == 0

-----------------------------------------------------------------------------
(* Configuration and remote content the commands read.                     *)

\* settings['repositories']: the repository descriptors, in file order.
Repositories ==
    << [name |-> "F-Droid", base_url |-> "https://f-droid.org/repo",
        apps_key |-> "apps_fdroid"],
       [name |-> "Guardian", base_url |-> "https://guardian.example/repo",
        apps_key |-> "apps_guardian"] >>

AppsKeys == { Repositories[i].apps_key : i \in 1..Len(Repositories) }

\* The document served at <base_url>/index.xml: application elements with an
\* id attribute, marketvercode children and package children (apkname,
\* versioncode), in document order.
RemoteIndex(base_url) ==
    IF base_url = "https://f-droid.org/repo"
    THEN << [id |-> "foo", marketvercode |-> <<"15">>,
             package |-> << [apkname |-> "foo-v15.apk", versioncode |-> "15"],
                            [apkname |-> "foo-v12.apk", versioncode |-> "12"],
                            [apkname |-> "foo-v10.apk", versioncode |-> "10"],
                            [apkname |-> "foo-v12b.apk", versioncode |-> "12"] >>],
            [id |-> "bar", marketvercode |-> <<"10">>,
             package |-> << [apkname |-> "bar-v10.apk", versioncode |-> "10"] >>] >>
    ELSE << [id |-> "baz", marketvercode |-> <<"7">>,
             package |-> << [apkname |-> "baz-v7.apk", versioncode |-> "7"] >>] >>

\* What urlretrieve leaves in the cache file when the transfer is cut short:
\* the document up to its first application.
TruncatedIndex(base_url) == SubSeq(RemoteIndex(base_url), 1, 1)

\* The declarations a settings file may list under an apps_key.
Declarations(apps_key) ==
    IF apps_key = "apps_fdroid"
    THEN { [name |-> "foo", code |-> "12"], [name |-> "foo", code |-> "99"],
           [name |-> "foo", code |-> "latest"], [name |-> "bar", code |-> "10"] }
    ELSE { [name |-> "baz", code |-> "7"], [name |-> "baz", code |-> "latest"] }

SeqsUpTo(S, n) == UNION { [1..k -> S] : k \in 0..n }

-----------------------------------------------------------------------------
(* The XPath queries of get_apps_lock_info.                                *)

RECURSIVE Concat(_)
Concat(ss) == IF ss = <<>> THEN <<>> ELSE Head(ss) \o Concat(Tail(ss))

\* //application[@id='<id>']
Applications(doc, id) == SelectSeq(doc, LAMBDA a : a.id = id)

\* package[n]: the package children at position n, positions counted from 1.
PackageAt(app, n) ==
    IF n \in 1..Len(app.package) THEN << app.package[n] >> ELSE <<>>

\* //application[@id='<id>']/package[0]/apkname/text()
LatestNames(doc, id) ==
    LET apps == Applications(doc, id)
    IN  Concat([i \in 1..Len(apps) |->
                  LET p == PackageAt(apps[i], LatestPackagePosition)
                  IN  [j \in 1..Len(p) |-> p[j].apkname]])

\* //application[@id='<id>']/marketvercode/text()
MarketVerCodes(doc, id) ==
    LET apps == Applications(doc, id)
    IN  Concat([i \in 1..Len(apps) |-> apps[i].marketvercode])

\* Variant of the exact query without its versioncode predicate.
ExactNamesAnyVersion(doc, id, code) ==
    LET apps == SelectSeq(doc, LAMBDA a : a.id = id)
    IN  Concat([i \in 1..Len(apps) |->
                  [j \in 1..Len(apps[i].package) |-> apps[i].package[j].apkname]])

\* //application[@id='<id>']/package/apkname/text()[../../versioncode/text() = <code>]
ExactNames(doc, id, code) ==
    LET apps == Applications(doc, id)
    IN  Concat([i \in 1..Len(apps) |->
                  LET p == SelectSeq(apps[i].package,
                                     LAMBDA n : n.versioncode = code)
                  IN  [j \in 1..Len(p) |-> p[j].apkname]])

\* Variant of the branch condition that tests the flag alone.
UseLatestFlagOnly(force_latest, app_info) == force_latest

\* The branch condition of the loop body.
UseLatest(force_latest, app_info) ==
    force_latest \/ app_info.code = "latest"

\* del repo_apps[key], key counted from 0.
DeleteAt(list, k) ==
    [i \in 1..(Len(list) - 1) |-> IF i <= k THEN list[i] ELSE list[i + 1]]

\* "%s/%s" % (repo_info['base_url'], app_package_names[0])
PackageUrl(base_url, package_name) == base_url \o "/" \o package_name

-----------------------------------------------------------------------------
VARIABLES
    settings,           \* apps_key -> declarations, as the settings file lists them
    index_files,        \* apps_key -> content of resources/<apps_key>.index.xml
    index_fetches,      \* apps_key -> number of times urlretrieve wrote that file
    lock_file,          \* apps_lock.yaml: [kind, data]
    runs,               \* command invocations started so far
    pc,                 \* position of the running command
    args,               \* handler.args of the running command
    repo_i,             \* position of the loop over settings['repositories']
    repo_apps,          \* the list get_apps_lock_info walks and returns
    key,                \* items the loop over repo_apps has consumed
    app_info,           \* local of the loop body: the item handed out last
    app_package_names,  \* local of the loop body
    app_version_codes,  \* local of the loop body: [none, list]
    lock_data,          \* the mapping being built, then the mapping read back
    fd,                 \* handle on apps_lock.yaml: "none", "open", "closed"
    printed,            \* TRUE once 'ERROR: Could not save the lock file!' is printed
    raised,             \* exception that left the command, or "none"
    dl,                 \* <<group, record>> position of download_apps
    fetched             \* urlretrieve calls of download_apps, in order

vars == << settings, index_files, index_fetches, lock_file, runs, pc, args,
           repo_i, repo_apps, key, app_info, app_package_names,
           app_version_codes, lock_data, fd, printed, raised, dl, fetched >>

files == << index_files, index_fetches, lock_file >>
loop == << repo_i, repo_apps, key, app_info, app_package_names,
          app_version_codes >>

NoApp == [name |-> "", code |-> ""]
NoCodes == [none |-> TRUE, list |-> <<>>]
NoArgs == [lock |-> FALSE, force_latest |-> FALSE, dl_apps |-> FALSE]

Init ==
    /\ \E a \in SeqsUpTo(Declarations("apps_fdroid"), MaxDecls),
          b \in SeqsUpTo(Declarations("apps_guardian"), MaxExtraDecls) :
            settings = [k \in AppsKeys |-> IF k = "apps_fdroid" THEN a ELSE b]
    /\ index_files = [k \in AppsKeys |-> "absent"]
    /\ index_fetches = [k \in AppsKeys |-> 0]
    /\ lock_file = [kind |-> "absent", data |-> <<>>]
    /\ runs = 0
    /\ pc = "done"
    /\ args = NoArgs
    /\ repo_i = 1
    /\ repo_apps = <<>>
    /\ key = 0
    /\ app_info = NoApp
    /\ app_package_names = <<>>
    /\ app_version_codes = NoCodes
    /\ lock_data = <<>>
    /\ fd = "none"
    /\ printed = FALSE
    /\ raised = "none"
    /\ dl = <<1, 1>>
    /\ fetched = <<>>

-----------------------------------------------------------------------------
(* main: one command per invocation.                                       *)

\* mia definition lock [--force-latest]: create_apps_lock_file up to the loop
\* over the repositories.
StartLock ==
    /\ pc = "done"
    /\ runs < MaxRuns
    /\ \E force \in BOOLEAN :
         args' = [lock |-> TRUE, force_latest |-> force, dl_apps |-> FALSE]
    /\ runs' = runs + 1
    /\ pc' = "index"
    /\ lock_data' = <<>>
    /\ repo_i' = 1
    /\ repo_apps' = <<>>
    /\ key' = 0
    /\ app_info' = NoApp
    /\ app_package_names' = <<>>
    /\ app_version_codes' = NoCodes
    /\ fd' = "none"
    /\ printed' = FALSE
    /\ raised' = "none"
    /\ dl' = <<1, 1>>
    /\ fetched' = <<>>
    /\ UNCHANGED << settings, files >>

\* The document lxml parses from the cache file.
IndexDocument(repo_info) ==
    IF index_files[repo_info.apps_key] = "full"
    THEN RemoteIndex(repo_info.base_url)
    ELSE TruncatedIndex(repo_info.base_url)

\* Variant of the cache test that downloads on every call.
NeedsDownloadAlways(apps_key) == TRUE

\* not os.path.isfile(index_path)
NeedsDownload(apps_key) == index_files[apps_key] = "absent"

\* get_apps_lock_info, entry: download the index when the cache file is
\* missing, then read it.  urlretrieve either stores the whole document,
\* stores a part of it and raises, or raises before the file exists.
EnsureIndex ==
    /\ pc = "index"
    /\ LET repo_info == Repositories[repo_i]
           k == repo_info.apps_key
       IN  IF NeedsDownload(k)
           THEN \E outcome \in {"full", "partial", "absent"} :
                  /\ index_files' = [index_files EXCEPT ![k] = outcome]
                  /\ index_fetches' =
                        [index_fetches EXCEPT
                           ![k] = IF outcome = "absent" THEN @ ELSE @ + 1]
                  /\ IF outcome = "full"
                     THEN /\ pc' = "apps"
                          /\ repo_apps' = settings[k]
                          /\ raised' = raised
                     ELSE /\ pc' = "done"
                          /\ repo_apps' = repo_apps
                          /\ raised' = IF outcome = "partial"
                                       THEN "ContentTooShortError"
                                       ELSE "URLError"
           ELSE /\ pc' = "apps"
                /\ repo_apps' = settings[k]
                /\ UNCHANGED << index_files, index_fetches, raised >>
    /\ key' = 0
    /\ UNCHANGED << settings, lock_file, runs, args, repo_i, app_info,
                    app_package_names,
                    app_version_codes, lock_data, fd, printed, dl, fetched >>

\* One pass of the body of `for key, app_info in enumerate(repo_apps)`.  The
\* list iterator and enumerate advance together, so the item handed out is
\* the one at position key of the list as it is now.
ResolveApp ==
    /\ pc = "apps"
    /\ key < Len(repo_apps)
    /\ LET repo_info == Repositories[repo_i]
           xml_document == IndexDocument(repo_info)
           item == repo_apps[key + 1]
           latest == UseLatest(args.force_latest, item)
           names == IF latest
                    THEN LatestNames(xml_document, item.name)
                    ELSE ExactNames(xml_document, item.name, item.code)
           codes == IF latest
                    THEN [none |-> FALSE,
                          list |-> MarketVerCodes(xml_document, item.name)]
                    ELSE NoCodes
           found == [name |-> item.name,
                     code |-> IF ~codes.none /\ Len(codes.list) > 0
                              THEN codes.list[1] ELSE item.code,
                     package_name |-> names[1],
                     package_url |-> PackageUrl(repo_info.base_url, names[1])]
       IN  /\ app_package_names' = names
           /\ app_version_codes' = codes
           /\ app_info' = IF Len(names) > 0 THEN found ELSE item
           /\ repo_apps' = IF Len(names) > 0
                           THEN [repo_apps EXCEPT ![key + 1] = found]
                           ELSE DeleteAt(repo_apps, key)
    /\ key' = key + 1
    /\ UNCHANGED << settings, files, runs, pc, args, repo_i, lock_data, fd,
                    printed, raised, dl, fetched >>

\* The loop is exhausted: return repo_apps, store it under the apps_key and
\* go on with the next repository, or with the lock file after the last one.
ReturnApps ==
    /\ pc = "apps"
    /\ key >= Len(repo_apps)
    /\ lock_data' = Append(lock_data, [group |-> Repositories[repo_i].apps_key,
                                       apps |-> repo_apps])
    /\ IF repo_i < Len(Repositories)
       THEN /\ repo_i' = repo_i + 1
            /\ pc' = "index"
       ELSE /\ repo_i' = repo_i
            /\ pc' = "write"
    /\ UNCHANGED << settings, files, runs, args, repo_apps, key, app_info,
                    app_package_names, app_version_codes, fd, printed, raised,
                    dl, fetched >>

\* The try block of create_apps_lock_file: open(lock_file_path, 'w') truncates
\* the file or raises OSError; yaml.dump(lock_data) may raise YAMLError, the
\* one exception the handler catches (close, print, return None); fd.write
\* may raise OSError with the handle still open; otherwise the document is
\* written and the handle closed.
SaveLockFile ==
    /\ pc = "write"
    /\ \E outcome \in {"open fails", "dump fails", "write fails", "written"} :
         /\ lock_file' = CASE outcome = "open fails" -> lock_file
                           [] outcome = "written" ->
                                [kind |-> "manifest", data |-> lock_data]
                           [] OTHER -> [kind |-> "empty", data |-> <<>>]
         /\ fd' = CASE outcome = "open fails" -> "none"
                    [] outcome = "write fails" -> "open"
                    [] OTHER -> "closed"
         /\ printed' = (outcome = "dump fails")
         /\ raised' = IF outcome \in {"open fails", "write fails"}
                      THEN "OSError" ELSE "none"
         /\ pc' = IF outcome = "written" THEN "confirm" ELSE "done"
    /\ UNCHANGED << settings, index_files, index_fetches, runs, args, loop,
                    lock_data, dl, fetched >>

\* handler.args['lock'] and input_confirm('Download apps now?'): on yes,
\* download_apps reads the lock data back.
ConfirmDownload ==
    /\ pc = "confirm"
    /\ \E yes \in BOOLEAN :
         IF args.lock /\ yes
         THEN /\ pc' = "download"
              /\ lock_data' = lock_file.data
         ELSE /\ pc' = "done"
              /\ lock_data' = lock_data
    /\ UNCHANGED << settings, files, runs, args, loop, fd, printed, raised,
                    dl, fetched >>

\* mia definition dl-apps: download_apps on the lock file a former
\* invocation wrote.
StartDlApps ==
    /\ pc = "done"
    /\ runs < MaxRuns
    /\ lock_file.kind = "manifest"
    /\ args' = [lock |-> FALSE, force_latest |-> FALSE, dl_apps |-> TRUE]
    /\ runs' = runs + 1
    /\ pc' = "download"
    /\ lock_data' = lock_file.data
    /\ repo_i' = 1
    /\ repo_apps' = <<>>
    /\ key' = 0
    /\ app_info' = NoApp
    /\ app_package_names' = <<>>
    /\ app_version_codes' = NoCodes
    /\ fd' = "none"
    /\ printed' = FALSE
    /\ raised' = "none"
    /\ dl' = <<1, 1>>
    /\ fetched' = <<>>
    /\ UNCHANGED << settings, files >>

\* The position of the next record of the nested loops of download_apps:
\* groups without records are passed over.
RECURSIVE NextRecord(_, _)
NextRecord(data, pos) ==
    IF pos[1] > Len(data) THEN pos
    ELSE IF pos[2] > Len(data[pos[1]].apps)
         THEN NextRecord(data, << pos[1] + 1, 1 >>)
         ELSE pos

\* One pass of the inner loop of download_apps: read package_url (KeyError
\* when the record has none), build the path and call urlretrieve.
DownloadApk ==
    /\ pc = "download"
    /\ LET pos == NextRecord(lock_data, dl)
       IN  /\ pos[1] <= Len(lock_data)
           /\ LET apk_info == lock_data[pos[1]].apps[pos[2]]
              IN  IF "package_url" \notin DOMAIN apk_info
                  THEN /\ raised' = "KeyError"
                       /\ pc' = "done"
                       /\ UNCHANGED << dl, fetched >>
                  ELSE \E ok \in BOOLEAN :
                         IF ok
                         THEN /\ fetched' =
                                    Append(fetched,
                                           [url |-> apk_info.package_url,
                                            path |-> "user-apps/" \o
                                                     apk_info.package_name])
                              /\ dl' = << pos[1], pos[2] + 1 >>
                              /\ UNCHANGED << pc, raised >>
                         ELSE /\ raised' = "URLError"
                              /\ pc' = "done"
                              /\ UNCHANGED << dl, fetched >>
    /\ UNCHANGED << settings, files, runs, args, loop, lock_data, fd, printed >>

\* Both loops of download_apps are exhausted.
DownloadDone ==
    /\ pc = "download"
    /\ NextRecord(lock_data, dl)[1] > Len(lock_data)
    /\ pc' = "done"
    /\ UNCHANGED << settings, files, runs, args, loop, lock_data, fd, printed,
                    raised, dl, fetched >>

Next ==
    \/ StartLock
    \/ EnsureIndex
    \/ ResolveApp
    \/ ReturnApps
    \/ SaveLockFile
    \/ ConfirmDownload
    \/ StartDlApps
    \/ DownloadApk
    \/ DownloadDone

Spec == Init /\ [][Next]_vars

-----------------------------------------------------------------------------
(* Properties of get_apps_lock_info.                                       *)

\* The loop body has just run on app_info.
Stepped == pc = "apps" /\ key > 0

\* create_apps_lock_file is between its first get_apps_lock_info call and
\* its return with the lock file written.
Locking == args.lock /\ pc \in {"index", "apps", "write", "confirm"}

\* What the queries of the loop body give for one declaration on its own:
\* no record, or the one record built from the first name found.
ResolvedOne(repo_info, d, force) ==
    LET doc == IndexDocument(repo_info)
        latest == force \/ d.code = "latest"
        names == IF latest THEN LatestNames(doc, d.name)
                 ELSE ExactNames(doc, d.name, d.code)
        codes == IF latest THEN MarketVerCodes(doc, d.name) ELSE <<>>
    IN  IF names = <<>> THEN <<>>
        ELSE << [name |-> d.name,
                 code |-> IF codes # <<>> THEN codes[1] ELSE d.code,
                 package_name |-> names[1],
                 package_url |-> repo_info.base_url \o "/" \o names[1]] >>

\* C1: the list get_apps_lock_info returns for a repository is exactly the
\* resolved records of the declarations that have an index match, in the
\* order of the declarations.
C1_OrderPreserved ==
    Locking =>
      \A i \in 1..Len(lock_data) :
        LET decls == settings[lock_data[i].group]
        IN  lock_data[i].apps =
              Concat([j \in 1..Len(decls) |->
                        ResolvedOne(Repositories[i], decls[j], args.force_latest)])

\* C2: a latest-path pass over a declaration whose application is in the
\* index with at least one package node produces the record with the
\* apkname of the first package node and the application's marketvercode.
C2_LatestResolves ==
    (Stepped /\ ~app_version_codes.none) =>
      LET doc == IndexDocument(Repositories[repo_i])
      IN  \A n \in 1..Len(doc) :
            (doc[n].id = app_info.name /\ Len(doc[n].package) >= 1) =>
              /\ "package_name" \in DOMAIN app_info
              /\ app_info.package_name = doc[n].package[1].apkname
              /\ app_info.code = doc[n].marketvercode[1]
              /\ repo_apps[key] = app_info

\* A declaration of the settings with no index match has no entry in `apps`.
UnmatchedAbsent(repo_info, decls, apps, force) ==
    \A j \in 1..Len(decls) :
      ResolvedOne(repo_info, decls[j], force) = <<>> =>
        \A m \in 1..Len(apps) :
          ~(apps[m].name = decls[j].name /\ apps[m].code = decls[j].code)

\* C3: no declaration with zero index matches is in a list returned by
\* get_apps_lock_info, nor in the lock manifest written from these lists.
C3_UnmatchedDropped ==
    Locking =>
      /\ \A i \in 1..Len(lock_data) :
           UnmatchedAbsent(Repositories[i], settings[lock_data[i].group],
                           lock_data[i].apps, args.force_latest)
      /\ pc = "confirm" =>
           \A i \in 1..Len(lock_file.data) :
             UnmatchedAbsent(Repositories[i], settings[lock_file.data[i].group],
                             lock_file.data[i].apps, args.force_latest)

\* C6: a pass of the loop takes the latest path (app_version_codes holds a
\* list, not None) exactly when --force-latest is set or the declaration's
\* code is "latest".
C6_PathSelection ==
    [][(pc = "apps" /\ key < Len(repo_apps) /\ key' = key + 1) =>
         (~app_version_codes'.none <=>
            (args.force_latest \/ repo_apps[key + 1].code = "latest"))]_vars

\* A pinned declaration went down the latest path under --force-latest.
C6_Witness ==
    /\ Stepped
    /\ args.force_latest
    /\ app_info.code = "12"
    /\ ~app_version_codes.none

\* The package nodes <<application, package>> of the document that belong to
\* application d.name and carry versioncode d.code.
MatchingNodes(doc, d) ==
    UNION { { << i, j >> : j \in { n \in 1..Len(doc[i].package) :
                                     doc[i].package[n].versioncode = d.code } } :
            i \in { a \in 1..Len(doc) : doc[a].id = d.name } }

FirstNode(nodes) ==
    CHOOSE n \in nodes :
      \A m \in nodes : n[1] < m[1] \/ (n[1] = m[1] /\ n[2] <= m[2])

\* C7: an exact-path pass over declaration (id, code) puts the apkname of
\* the first package node of that application with that versioncode in the
\* record and leaves the record's code as declared; with no such node the
\* pass finds nothing and produces no record.
C7_ExactResolution ==
    [][(/\ pc = "apps" /\ key < Len(repo_apps) /\ key' = key + 1
        /\ ~args.force_latest /\ repo_apps[key + 1].code # "latest") =>
         LET d == repo_apps[key + 1]
             doc == IndexDocument(Repositories[repo_i])
             nodes == MatchingNodes(doc, d)
         IN  IF nodes = {}
             THEN /\ app_package_names' = <<>>
                  /\ Len(repo_apps') = Len(repo_apps) - 1
             ELSE LET n == FirstNode(nodes)
                  IN  /\ Len(repo_apps') = Len(repo_apps)
                      /\ repo_apps'[key + 1].name = d.name
                      /\ repo_apps'[key + 1].code = d.code
                      /\ repo_apps'[key + 1].package_name =
                            doc[n[1]].package[n[2]].apkname]_vars

\* Declaration foo:12, whose versioncode two package nodes carry, resolved
\* on the exact path.
C7_Witness ==
    /\ Stepped
    /\ app_version_codes.none
    /\ "package_name" \in DOMAIN app_info
    /\ app_info.name = "foo"
    /\ app_info.code = "12"

\* C8: the index of a repository is downloaded at most once; a call that
\* finds the cache file present neither fetches nor changes the file.
C8_IndexDownloadedOnce ==
    [][\A k \in AppsKeys :
         /\ index_fetches'[k] <= 1
         /\ index_files[k] # "absent" =>
              /\ index_files'[k] = index_files[k]
              /\ index_fetches'[k] = index_fetches[k]]_vars

\* A second lock command is past the index stage of the first repository,
\* whose index the first command downloaded.
C8_Witness ==
    /\ runs = 2
    /\ args.lock
    /\ pc = "apps"
    /\ repo_i = 1
    /\ lock_file.kind = "manifest"
    /\ index_fetches["apps_fdroid"] = 1

-----------------------------------------------------------------------------
(* Properties of the lock file and of download_apps.                       *)

\* C4: a failed write leaves an existing manifest as it was.
C4_FailedWriteKeepsManifest ==
    [][(pc = "write" /\ pc' = "done" /\ lock_file.kind = "manifest") =>
         lock_file' = lock_file]_vars

\* C5: a failed write is caught: the error is printed, nothing is raised,
\* the handle is not left open and download_apps is not started.
C5_WriteFailureCaught ==
    [][(pc = "write" /\ pc' # "confirm") =>
         /\ pc' = "done"
         /\ printed'
         /\ raised' = "none"
         /\ fd' # "open"
         /\ fetched' = fetched]_vars

\* The records of a manifest, group after group.
FlatRecords(data) == Concat([i \in 1..Len(data) |-> data[i].apps])

\* C9: download_apps fetches record after record in manifest order, each
\* from its package_url to user-apps/<package_name>; it ends without a
\* failed fetch only after fetching every record, and a failed fetch ends it
\* with the failure raised and nothing more fetched.
C9_FetchEveryRecord ==
    [][pc = "download" =>
         /\ fetched' # fetched =>
              LET r == FlatRecords(lock_data)[Len(fetched) + 1]
              IN  fetched' = Append(fetched,
                                    [url |-> r.package_url,
                                     path |-> "user-apps/" \o r.package_name])
         /\ (pc' = "done" /\ raised' # "URLError") =>
              Len(fetched') = Len(FlatRecords(lock_data))
         /\ raised' = "URLError" => (pc' = "done" /\ fetched' = fetched)]_vars

\* C10: every record of a written manifest has the fields name, code,
\* package_name and package_url, the last being base_url/package_name.
C10_RecordsComplete ==
    lock_file.kind = "manifest" =>
      \A i \in 1..Len(lock_file.data) :
        \A j \in 1..Len(lock_file.data[i].apps) :
          LET r == lock_file.data[i].apps[j]
          IN  /\ DOMAIN r = {"name", "code", "package_name", "package_url"}
              /\ r.package_url =
                    Repositories[i].base_url \o "/" \o r.package_name

====
